---- MODULE Spec2Model ----
(***************************************************************************)
(* A model of the GaodeAtlas-Shp geometry pipeline and capture workflow:   *)
(* the shape-string codec, the serializers, the GCJ-02 conversion and the  *)
(* view normalisation (geometry_utils.py), place assembly                  *)
(* (gaode_client.py, models.py), the exporters (exporters.py) and the      *)
(* capture and polling handlers of the main window (app.py).               *)
(*                                                                         *)
(* Text is a sequence of one-character strings.  A float is an integer     *)
(* count of 10^-FracDigits units.  Where a float is rounded or formatted   *)
(* only values that are exact in binary (multiples of 1/4) are fed in, so  *)
(* equality and rounding are those of the doubles; envelope bounds are     *)
(* compared in ten-thousandths; canvas coordinates are kept in 1/Quantum   *)
(* units, the quotient of the scale rounded half-even.                     *)
(***************************************************************************)
EXTENDS Integers, Sequences, FiniteSets, Bags, TLC

\* ------------------------------------------------------------------ bounds
\* Vertex segments in one generated shape text.
MaxSegs == 3

\* Fractional decimal digits a modelled float carries.
FracDigits == 4

VARIABLES
    \* shape-string codec: parse_shape_rings applied to a generated text
    shape_src,      \* the rings of vertex segments the text was built from
    shape,          \* the argument of parse_shape_rings
    rings,          \* its return value
    codec_pc,       \* "input" | "parsed"
    \* place assembly: GaodeClient.build_place_from_payload
    payload,        \* the decoded JSON payload
    fallback_poiid, \* the poiid argument
    asm_out,        \* what the call did: exception or returned PlaceDetail
    asm_pc,         \* "input" | "done"
    \* exporters: one call of export or export_batch
    exp_places,     \* the places handed to the exporter
    exp_path,       \* the file path handed to it
    exp_out,        \* what the call did
    exp_pc,         \* "input" | "done"
    \* the main window's capture workflow (app.py)
    _capturing,         \* MainWindow._capturing
    _captured_places,   \* MainWindow._captured_places
    _capture_pending,   \* MainWindow._capture_pending
    _pending_attempts,  \* MainWindow._pending_attempts
    _current_place,     \* MainWindow._current_place: <<>> or <<place>>
    js_callbacks,       \* runJavaScript calls whose callback is still to come:
                        \* for each (poiid, mode) the bag of their requests,
                        \* each request told by the polls it has made
    timers,             \* QTimer.singleShot retries still to fire, likewise
    modals,             \* the modal dialogs open, innermost last
    export_log,         \* what the last _export_capture_results wrote
    \* round trip: rings_to_shape_string, then parse_shape_rings
    rt_rings,       \* the rings handed to rings_to_shape_string
    precision,      \* its precision argument
    close_rings,    \* its close_rings argument
    rt_text,        \* the shape string it returned
    rt_back,        \* what parse_shape_rings made of that string
    rt_pc,          \* "input" | "text" | "parsed"
    \* coordinate transform: convert_gcj02_polygon
    tr_coords,      \* the ring handed to convert_gcj02_polygon
    tr_out,         \* the list it returned
    tr_pc,          \* "input" | "done"
    \* view fitting: normalize_to_view
    nv_coords,      \* the coords argument, in whole degrees
    width,          \* the canvas width
    height,         \* the canvas height
    padding,        \* the padding
    nv_out,         \* the list returned, in 1/Quantum canvas units
    nv_pc,          \* "input" | "done"
    \* GeoJSON to shape string: feature_to_shape_string
    feature,        \* the feature argument
    ft_precision,   \* the precision argument
    ft_close,       \* the close_rings argument
    ft_out,         \* what the call did: ValueError or the text returned
    ft_pc           \* "input" | "done"

codecVars == <<shape_src, shape, rings, codec_pc>>
asmVars == <<payload, fallback_poiid, asm_out, asm_pc>>

expVars == <<exp_places, exp_path, exp_out, exp_pc>>

capVars == <<_capturing, _captured_places, _capture_pending, _pending_attempts,
             _current_place, js_callbacks, timers, modals, export_log>>

rtVars == <<rt_rings, precision, close_rings, rt_text, rt_back, rt_pc>>

trVars == <<tr_coords, tr_out, tr_pc>>

nvVars == <<nv_coords, width, height, padding, nv_out, nv_pc>>

ftVars == <<feature, ft_precision, ft_close, ft_out, ft_pc>>

notCodec == <<asmVars, expVars, capVars, rtVars, trVars, nvVars, ftVars>>
notAsm == <<codecVars, expVars, capVars, rtVars, trVars, nvVars, ftVars>>
notExp == <<codecVars, asmVars, capVars, rtVars, trVars, nvVars, ftVars>>
notCap == <<codecVars, asmVars, expVars, rtVars, trVars, nvVars, ftVars>>
notRt == <<codecVars, asmVars, expVars, capVars, trVars, nvVars, ftVars>>
notTr == <<asmVars, expVars, capVars, rtVars, codecVars, nvVars, ftVars>>
notNv == <<asmVars, expVars, capVars, rtVars, trVars, codecVars, ftVars>>
notFt == <<asmVars, expVars, capVars, rtVars, trVars, nvVars, codecVars>>

vars == <<shape_src, shape, rings, codec_pc,
          payload, fallback_poiid, asm_out, asm_pc,
          exp_places, exp_path, exp_out, exp_pc,
          _capturing, _captured_places, _capture_pending, _pending_attempts,
          _current_place, js_callbacks, timers, modals, export_log,
          rt_rings, precision, close_rings, rt_text, rt_back, rt_pc,
          tr_coords, tr_out, tr_pc,
          nv_coords, width, height, padding, nv_out, nv_pc,
          feature, ft_precision, ft_close, ft_out, ft_pc>>

\* ------------------------------------------------------------ text helpers
RECURSIVE Pow10(_)
Pow10(n) == IF n = 0 THEN 1 ELSE 10 * Pow10(n - 1)

Scale == Pow10(FracDigits)

Digits == {"0", "1", "2", "3", "4", "5", "6", "7", "8", "9"}

DigitVal(c) ==
    CASE c = "0" -> 0 [] c = "1" -> 1 [] c = "2" -> 2 [] c = "3" -> 3
      [] c = "4" -> 4 [] c = "5" -> 5 [] c = "6" -> 6 [] c = "7" -> 7
      [] c = "8" -> 8 [] c = "9" -> 9

DigitChar(n) ==
    CASE n = 0 -> "0" [] n = 1 -> "1" [] n = 2 -> "2" [] n = 3 -> "3"
      [] n = 4 -> "4" [] n = 5 -> "5" [] n = 6 -> "6" [] n = 7 -> "7"
      [] n = 8 -> "8" [] n = 9 -> "9"

Whitespace == {" "}

\* Python's None and str values; `not shape` is true of None and of "".
NoneValue == [none |-> TRUE, s |-> <<>>]
Str(chars) == [none |-> FALSE, s |-> chars]
Falsy(v) == v.none \/ v.s = <<>>

\* str.strip()
RECURSIVE Strip(_)
Strip(s) ==
    IF s = <<>> THEN s
    ELSE IF Head(s) \in Whitespace THEN Strip(Tail(s))
    ELSE IF s[Len(s)] \in Whitespace THEN Strip(SubSeq(s, 1, Len(s) - 1))
    ELSE s

\* str.split(sep) for a one-character separator: always at least one part.
RECURSIVE Split(_, _)
Split(s, sep) ==
    IF \A i \in 1..Len(s) : s[i] # sep THEN <<s>>
    ELSE LET i == CHOOSE k \in 1..Len(s) :
                      s[k] = sep /\ \A j \in 1..(k - 1) : s[j] # sep
         IN  <<SubSeq(s, 1, i - 1)>> \o Split(SubSeq(s, i + 1, Len(s)), sep)

\* sep.join(parts)
RECURSIVE Join(_, _)
Join(parts, sep) ==
    IF parts = <<>> THEN <<>>
    ELSE IF Len(parts) = 1 THEN parts[1]
    ELSE parts[1] \o <<sep>> \o Join(Tail(parts), sep)

RECURSIVE DigitsToNat(_)
DigitsToNat(ds) ==
    IF ds = <<>> THEN 0
    ELSE 10 * DigitsToNat(SubSeq(ds, 1, Len(ds) - 1)) + DigitVal(ds[Len(ds)])

RECURSIVE NatToDigits(_)
NatToDigits(n) ==
    IF n < 10 THEN <<DigitChar(n)>>
    ELSE NatToDigits(n \div 10) \o <<DigitChar(n % 10)>>

\* The first FracDigits fractional digits, right-padded with zeros.
FracToUnits(ds) ==
    LET padded == [i \in 1..FracDigits |-> IF i <= Len(ds) THEN ds[i] ELSE "0"]
    IN  DigitsToNat(padded)

\* float(text): [ok |-> FALSE] stands for ValueError.  Surrounding
\* whitespace is ignored; the literal is an optional sign, digits and at
\* most one decimal point, with at least one digit.
float(tok) ==
    LET t      == Strip(tok)
        signed == t # <<>> /\ t[1] \in {"-", "+"}
        body   == IF signed THEN Tail(t) ELSE t
        dots   == {i \in 1..Len(body) : body[i] = "."}
        wellformed ==
            /\ Cardinality(dots) <= 1
            /\ \A i \in 1..Len(body) : body[i] \in Digits \cup {"."}
            /\ \E i \in 1..Len(body) : body[i] \in Digits
        dot    == IF dots = {} THEN Len(body) + 1 ELSE CHOOSE i \in dots : TRUE
        whole  == SubSeq(body, 1, dot - 1)
        frac   == SubSeq(body, dot + 1, Len(body))
        mag    == DigitsToNat(whole) * Scale + FracToUnits(frac)
    IN  IF wellformed
        THEN [ok |-> TRUE, val |-> IF signed /\ t[1] = "-" THEN 0 - mag ELSE mag]
        ELSE [ok |-> FALSE, val |-> 0]

\* ------------------------------------------------- geometry_utils: parsing
\* One pass of the inner loop body of parse_shape_rings: the coordinate a
\* vertex segment contributes, as a list of zero or one coordinates.
PairCoord(lon, lat) ==
    IF ~lon.ok \/ ~lat.ok THEN <<>> ELSE << <<lon.val, lat.val>> >>

PairOfTokensLoose(lon_lat) ==
    IF Len(lon_lat) < 2 THEN <<>>
    ELSE PairCoord(float(lon_lat[1]), float(lon_lat[2]))

PairOfTokens(lon_lat) ==
    IF Len(lon_lat) # 2 THEN <<>>
    ELSE PairCoord(float(lon_lat[1]), float(lon_lat[2]))

PairOfStripped(p) == IF p = <<>> THEN <<>> ELSE PairOfTokens(Split(p, ","))

ParsePair(pair) == PairOfStripped(Strip(pair))

RECURSIVE RingCoords(_)
RingCoords(pairs) ==
    IF pairs = <<>> THEN <<>>
    ELSE ParsePair(Head(pairs)) \o RingCoords(Tail(pairs))

\* The closing step of parse_shape_rings on a non-empty ring.
CloseRingNever(ring_coords) == ring_coords

CloseRing(ring_coords) ==
    IF ring_coords[1] # ring_coords[Len(ring_coords)]
    THEN Append(ring_coords, ring_coords[1])
    ELSE ring_coords

\* What one "@"-separated part adds to `rings`.
RingOf(ring_coords) ==
    IF ring_coords = <<>> THEN <<>> ELSE <<CloseRing(ring_coords)>>

RECURSIVE ParseRings(_)
ParseRings(raw_rings) ==
    IF raw_rings = <<>> THEN <<>>
    ELSE RingOf(RingCoords(Split(Head(raw_rings), ";")))
         \o ParseRings(Tail(raw_rings))

parse_shape_rings(shp) ==
    IF Falsy(shp) THEN <<>> ELSE ParseRings(Split(shp.s, "@"))

FirstRing(rs) == IF rs # <<>> THEN rs[1] ELSE <<>>

parse_shape_string(shp) == FirstRing(parse_shape_rings(shp))

\* ------------------------------------------------ geometry_utils: transform
\* The comparisons of _out_of_china, on a coordinate counted in 1/Scale
\* units against a literal written in ten-thousandths; both sides are
\* brought to the finer of the two units, so the comparison is exact.
AtLeast(v, literal) ==
    IF FracDigits >= 4 THEN literal * Pow10(FracDigits - 4) <= v
    ELSE literal <= v * Pow10(4 - FracDigits)

AtMost(v, literal) ==
    IF FracDigits >= 4 THEN v <= literal * Pow10(FracDigits - 4)
    ELSE v * Pow10(4 - FracDigits) <= literal

\* The envelope with its bounds left out.
OutOfChinaOpenBounds(lon, lat) ==
    ~ ( /\ ~AtMost(lon, 720040) /\ ~AtLeast(lon, 1378347)
        /\ ~AtMost(lat, 8293)   /\ ~AtLeast(lat, 558271) )

_out_of_china(lon, lat) ==
    ~ ( /\ AtLeast(lon, 720040) /\ AtMost(lon, 1378347)
        /\ AtLeast(lat, 8293)   /\ AtMost(lat, 558271) )

\* gcj02_to_wgs84.  Outside the envelope the point is returned as it is.
\* Inside, the trigonometric offset is not computed: it is kept as a mark
\* on the point, `shifted`, that tells a corrected point from the
\* uncorrected point it was made from.
gcj02_to_wgs84(pt) ==
    [lon |-> pt[1], lat |-> pt[2], shifted |-> ~_out_of_china(pt[1], pt[2])]

ConvertBackwards(coords) ==
    [i \in 1..Len(coords) |-> gcj02_to_wgs84(coords[Len(coords) + 1 - i])]

convert_gcj02_polygon(coords) ==
    [i \in 1..Len(coords) |-> gcj02_to_wgs84(coords[i])]

\* ---------------------------------------------------------------- models.py
\* JSON leaves: None, str, int, float; `s` is the text str() gives.
PyNone == [t |-> "none", s |-> <<"N", "o", "n", "e">>]
PyText(chars) == [t |-> "str", s |-> chars]
PyInt(chars) == [t |-> "int", s |-> chars]
PyFloat(chars) == [t |-> "float", s |-> chars]

\* str(value)
PyStr(v) == v.s

\* bool(value)
Truthy(v) ==
    CASE v.t = "none"  -> FALSE
      [] v.t = "str"   -> v.s # <<>>
      [] v.t = "int"   -> DigitsToNat(SelectSeq(v.s, LAMBDA c : c \in Digits)) # 0
      [] v.t = "float" -> DigitsToNat(SelectSeq(v.s, LAMBDA c : c \in Digits)) # 0

\* The fields of the PlaceDetail dataclass, and those with a default.
PlaceDetailFields ==
    {"poiid", "name", "classify", "longitude", "latitude", "address",
     "telephone", "city_name", "city_adcode", "code", "tag", "mining_shape",
     "metadata", "raw"}
PlaceDetailDefaults == {"raw"}

NoShape == [present |-> FALSE, coordinates |-> <<>>, level |-> 0,
            center |-> <<>>]
MiningShape(coordinates, level, center) ==
    [present |-> TRUE, coordinates |-> coordinates, level |-> level,
     center |-> <<center>>]

\* The generated __init__ of the PlaceDetail dataclass called with keyword
\* arguments: TypeError when a field without default is not given.
PlaceDetail(kwargs) ==
    IF /\ (PlaceDetailFields \ PlaceDetailDefaults) \subseteq DOMAIN kwargs
       /\ DOMAIN kwargs \subseteq PlaceDetailFields
    THEN [exc |-> "none", place |-> <<kwargs>>]
    ELSE [exc |-> "TypeError", place |-> <<>>]

PlaceDetailResult(made, mining_shape) ==
    [exc |-> made.exc, place |-> made.place, parsed |-> TRUE,
     mining_shape |-> mining_shape]

\* PlaceDetail.has_geometry
has_geometry_shape_only(place) == place.mining_shape.present

has_geometry(place) ==
    place.mining_shape.present /\ place.mining_shape.coordinates # <<>>

\* ----------------------------------------------------------- gaode_client.py
\* A dict-valued JSON member: key missing, null, or an object.
EmptyMiningShape == [shape |-> PyNone, center |-> PyNone, level |-> PyNone]
EmptyBase == [poiid |-> PyNone, name |-> PyNone]

NoSpec(kind) ==
    [kind |-> kind, mining_shape |-> [kind |-> "missing", d |-> EmptyMiningShape]]

NoData(kind) ==
    [kind |-> kind, base |-> [kind |-> "missing", d |-> EmptyBase],
     spec |-> NoSpec("missing")]

\* The digits of a float's text before the point: int() of a float
\* truncates toward zero.
WholePart(body) ==
    IF \E i \in 1..Len(body) : body[i] = "."
    THEN SubSeq(body, 1, (CHOOSE i \in 1..Len(body) : body[i] = ".") - 1)
    ELSE body

SignedNat(negative, mag) == IF negative THEN 0 - mag ELSE mag

IntOfText(t, negative, body) ==
    IF body # <<>> /\ \A i \in 1..Len(body) : body[i] \in Digits
    THEN [exc |-> "none", val |-> SignedNat(negative, DigitsToNat(body))]
    ELSE [exc |-> "ValueError", val |-> 0]

IntOfSigned(t) ==
    IF t # <<>> /\ t[1] \in {"-", "+"}
    THEN IntOfText(t, t[1] = "-", Tail(t))
    ELSE IntOfText(t, FALSE, t)

Infinity == <<"i", "n", "f">>

\* int(value): the integer, or the exception raised.  A str is parsed
\* (surrounding whitespace ignored, optional sign, digits only), a float is
\* truncated, an infinite float raises OverflowError, None raises TypeError.
int(v) ==
    IF v.t = "none" THEN [exc |-> "TypeError", val |-> 0]
    ELSE IF v.t = "float" /\ v.s = Infinity THEN [exc |-> "OverflowError", val |-> 0]
    ELSE IF v.t = "float" THEN IntOfSigned(WholePart(v.s))
    ELSE IntOfSigned(Strip(v.s))

\* str(payload.get("status")) != "1"
StatusFailsStrict(status) == status # PyText(<<"1">>)

StatusFails(status) == PyStr(status) # <<"1">>

\* The shape argument handed to parse_shape_string.
ShapeArg(v) == IF v.t = "none" THEN NoneValue ELSE Str(v.s)

\* lon_str, lat_str = center.split(","); float(...) of both: the parsed
\* pair, or nothing when unpacking or float() raises the ValueError the
\* code catches.
CenterPair(parts) ==
    IF Len(parts) # 2 THEN <<>>
    ELSE PairCoord(float(parts[1]), float(parts[2]))

CenterFromPair(pair, first) ==
    IF pair = <<>> THEN first ELSE gcj02_to_wgs84(pair[1])

\* The center of the MiningShape: [exc |-> "AttributeError"] when the
\* field is a truthy non-string (it has no split()).
CenterOf(center, first) ==
    IF ~Truthy(center) THEN [exc |-> "none", val |-> first]
    ELSE IF center.t # "str" THEN [exc |-> "AttributeError", val |-> first]
    ELSE [exc |-> "none", val |-> CenterFromPair(CenterPair(Split(center.s, ",")), first)]

\* The handler of the level: except (TypeError, ValueError): level = 0.
IntOrZero(parsed) ==
    IF parsed.exc \in {"TypeError", "ValueError"} THEN [exc |-> "none", val |-> 0]
    ELSE parsed

\* level = int(level_value) if level_value is not None else 0, in its try.
LevelOf(level_value) ==
    IF level_value.t = "none" THEN [exc |-> "none", val |-> 0]
    ELSE IntOrZero(int(level_value))

\* payload.get("data") or {}, data.get("base") or {}, and
\* (spec.get("mining_shape") or {}) if spec else {}
DataOf(pl) == IF pl.data.kind = "dict" THEN pl.data ELSE NoData("missing")
BaseOf(data) == IF data.base.kind = "dict" THEN data.base.d ELSE EmptyBase
MiningShapeRawOf(data) ==
    IF data.spec.kind = "dict" /\ data.spec.mining_shape.kind = "dict"
    THEN data.spec.mining_shape.d ELSE EmptyMiningShape

\* The return statement: the PlaceDetail constructor call.
ReturnPlace(data, base, mining_shape, poiid) ==
    PlaceDetailResult(PlaceDetail(
        [poiid |-> IF Truthy(base.poiid) THEN base.poiid.s ELSE poiid,
         name |-> IF Truthy(base.name) THEN base.name.s ELSE <<>>,
         address |-> <<>>, telephone |-> <<>>, city_name |-> <<>>,
         tag |-> <<>>, mining_shape |-> mining_shape,
         metadata |-> <<>>, raw |-> data]), mining_shape)

\* An exception raised inside the `if coordinates:` block: mining_shape is
\* still None.
RaisedInBlock(exc) ==
    [exc |-> exc, place |-> <<>>, parsed |-> TRUE, mining_shape |-> NoShape]

\* The block once center and level are known.
WithLevel(data, base, coordinates, center, level, poiid) ==
    IF level.exc # "none" THEN RaisedInBlock(level.exc)
    ELSE ReturnPlace(data, base, MiningShape(coordinates, level.val, center), poiid)

\* The `if coordinates:` block, once the center is known.
WithCenter(data, base, raw, coordinates, center, poiid) ==
    IF center.exc # "none" THEN RaisedInBlock(center.exc)
    ELSE WithLevel(data, base, coordinates, center.val, LevelOf(raw.level), poiid)

WithCoordinates(data, base, raw, coordinates, poiid) ==
    IF coordinates # <<>>
    THEN WithCenter(data, base, raw, coordinates,
                    CenterOf(raw.center, coordinates[1]), poiid)
    ELSE ReturnPlace(data, base, NoShape, poiid)

WithData(data, raw, poiid) ==
    WithCoordinates(data, BaseOf(data), raw,
        convert_gcj02_polygon(parse_shape_string(ShapeArg(raw.shape))), poiid)

\* build_place_from_payload(payload, poiid): the exception it raises or the
\* PlaceDetail it returns, with whether the geometry was parsed on the way
\* and the value its local mining_shape had when the call ended.
build_place_from_payload(pl, poiid) ==
    IF StatusFails(pl.status)
    THEN [exc |-> "ValueError", place |-> <<>>, parsed |-> FALSE,
          mining_shape |-> NoShape]
    ELSE WithData(DataOf(pl), MiningShapeRawOf(DataOf(pl)), poiid)

\* --------------------------------------------- shape texts fed to the parser
\* The vertex segments a generated text is assembled from, each with the
\* coordinates Python's parser takes from it (none for a blank or malformed
\* segment): "1,1", "2,1", " -.5, 1. ", "", " ", "x,1", "1,2,1", "1".
VertexSegments ==
    { [txt |-> <<"1", ",", "1">>,            coord |-> << <<Scale, Scale>> >>],
      [txt |-> <<"2", ",", "1">>,            coord |-> << <<2 * Scale, Scale>> >>],
      [txt |-> <<" ", "-", ".", "5", ",", " ", "1", ".", " ">>,
                                             coord |-> << <<0 - (Scale \div 2), Scale>> >>],
      [txt |-> <<>>,                         coord |-> <<>>],
      [txt |-> <<" ">>,                      coord |-> <<>>],
      [txt |-> <<"x", ",", "1">>,            coord |-> <<>>],
      [txt |-> <<"1", ",", "2", ",", "1">>,  coord |-> <<>>],
      [txt |-> <<"1">>,                      coord |-> <<>>] }

RECURSIVE SegCount(_)
SegCount(src) == IF src = <<>> THEN 0 ELSE Len(Head(src)) + SegCount(Tail(src))

RingText(ring_src) == Join([i \in 1..Len(ring_src) |-> ring_src[i].txt], ";")
ShapeText(src) == Join([i \in 1..Len(src) |-> RingText(src[i])], "@")

\* The well-formed coordinates of one source ring, in input order.
RECURSIVE WellFormed(_)
WellFormed(ring_src) ==
    IF ring_src = <<>> THEN <<>>
    ELSE Head(ring_src).coord \o WellFormed(Tail(ring_src))

\* The source rings that hold at least one well-formed vertex, in order.
KeptSources(src) == SelectSeq(src, LAMBDA r : WellFormed(r) # <<>>)

CodecInit ==
    /\ shape_src = <<>>
    /\ shape \in {NoneValue, Str(<<>>)}
    /\ rings = <<>>
    /\ codec_pc = "input"

CodecIdle ==
    /\ shape_src = <<>>
    /\ shape = NoneValue
    /\ rings = <<>>
    /\ codec_pc = "idle"

\* The caller extends the text by "@<segment>" (or starts it).
AppendRing(seg) ==
    /\ codec_pc = "input"
    /\ SegCount(shape_src) < MaxSegs
    /\ shape_src' = Append(shape_src, <<seg>>)
    /\ shape' = Str(ShapeText(shape_src'))
    /\ UNCHANGED <<rings, codec_pc>>

\* The caller extends the text by ";<segment>".
AppendVertex(seg) ==
    /\ codec_pc = "input"
    /\ shape_src # <<>>
    /\ SegCount(shape_src) < MaxSegs
    /\ shape_src' = [shape_src EXCEPT ![Len(shape_src)] = Append(@, seg)]
    /\ shape' = Str(ShapeText(shape_src'))
    /\ UNCHANGED <<rings, codec_pc>>

ParseShape ==
    /\ codec_pc = "input"
    /\ rings' = parse_shape_rings(shape)
    /\ codec_pc' = "parsed"
    /\ UNCHANGED <<shape_src, shape>>

\* C8: every ring parse_shape_rings returns is non-empty and closed (first
\* vertex = last vertex); a ring whose well-formed vertices are open gets
\* exactly one vertex, a copy of the first, appended; one that is already
\* closed gets none; a ring segment with no well-formed vertex is left out.
C8_RingsNonEmptyClosed ==
    codec_pc = "parsed" =>
        LET kept == KeptSources(shape_src)
        IN  /\ Len(rings) = Len(kept)
            /\ \A i \in 1..Len(rings) :
                 LET wf == WellFormed(kept[i])
                 IN  /\ rings[i] # <<>>
                     /\ rings[i][1] = rings[i][Len(rings[i])]
                     /\ Len(rings[i]) =
                          Len(wf) + (IF wf[1] # wf[Len(wf)] THEN 1 ELSE 0)

\* A parsed text with a ring that had no well-formed vertex (left out) and
\* an open ring of two vertices (closed by a third).
C8_Witness ==
    /\ codec_pc = "parsed"
    /\ \E i \in 1..Len(shape_src) : WellFormed(shape_src[i]) = <<>>
    /\ \E i \in 1..Len(rings) : Len(rings[i]) = 3 /\ rings[i][1] # rings[i][2]

\* C9: parse_shape_rings returns normally whatever the vertex segments
\* are; blank and malformed segments contribute nothing, and the
\* well-formed vertices of each ring come back in input order.
C9_MalformedDropped ==
    codec_pc = "parsed" =>
        LET kept == KeptSources(shape_src)
        IN  /\ Len(rings) = Len(kept)
            /\ \A i \in 1..Len(rings) :
                 LET wf == WellFormed(kept[i])
                 IN  /\ Len(rings[i]) >= Len(wf)
                     /\ SubSeq(rings[i], 1, Len(wf)) = wf

\* A parsed ring that held a malformed, non-blank segment between two
\* well-formed vertices.
C9_Witness ==
    /\ codec_pc = "parsed"
    /\ \E i \in 1..Len(shape_src) :
         /\ Len(WellFormed(shape_src[i])) >= 2
         /\ \E j \in 2..(Len(shape_src[i]) - 1) :
              /\ shape_src[i][j].coord = <<>>
              /\ Strip(shape_src[i][j].txt) # <<>>
              /\ shape_src[i][j - 1].coord # <<>>
              /\ shape_src[i][j + 1].coord # <<>>

\* ------------------------------------------------------ payloads assembled
Text1 == <<"1">>
GoodShape == <<"1", "1", "6", ",", "3", "9", ";", "1", "1", "7", ",", "4", "0">>

StatusValues ==
    { PyNone, PyText(Text1), PyInt(Text1), PyText(<<"0">>), PyInt(<<"0">>),
      PyFloat(<<"1", ".", "0">>), PyText(<<>>), PyText(<<" ", "1">>) }

MiningShapeOf(shape_value) ==
    [shape |-> shape_value, center |-> PyNone, level |-> PyNone]

\* "116,39;117,40@118,41": a second ring after the first.
TwoRingShape == GoodShape \o <<"@", "1", "1", "8", ",", "4", "1">>

\* Values of the center field: absent, "", "116.5,39.5", "1,1" (outside the
\* envelope), "x,1", "1", "1,2,3", and the numbers 5 and 0.
CenterValues ==
    { PyNone, PyText(<<>>),
      PyText(<<"1", "1", "6", ".", "5", ",", "3", "9", ".", "5">>),
      PyText(<<"1", ",", "1">>),
      PyText(<<"x", ",", "1">>), PyText(<<"1">>),
      PyText(<<"1", ",", "2", ",", "3">>),
      PyInt(<<"5">>), PyInt(<<"0">>) }

\* Values of the level field: absent, "3", " 12 ", "x", "", "3.5", and the
\* numbers 3, 2.7, -2.7 and 1e999 (an infinite float once decoded).
LevelValues ==
    { PyNone, PyText(<<"3">>), PyText(<<" ", "1", "2", " ">>), PyText(<<"x">>),
      PyText(<<>>), PyText(<<"3", ".", "5">>), PyInt(<<"3">>),
      PyFloat(<<"2", ".", "7">>), PyFloat(<<"-", "2", ".", "7">>),
      PyFloat(Infinity) }

MiningShapeValues ==
    { [kind |-> "missing", d |-> EmptyMiningShape],
      [kind |-> "none",    d |-> EmptyMiningShape],
      [kind |-> "dict",    d |-> EmptyMiningShape],
      [kind |-> "dict",    d |-> MiningShapeOf(PyText(<<>>))],
      [kind |-> "dict",    d |-> MiningShapeOf(PyText(<<"x">>))] }
    \cup { [kind |-> "dict", d |-> [shape |-> PyText(sh), center |-> c, level |-> l]] :
               sh \in {GoodShape, TwoRingShape}, c \in CenterValues, l \in LevelValues }

SpecValues ==
    {NoSpec("missing"), NoSpec("none")}
    \cup {[kind |-> "dict", mining_shape |-> m] : m \in MiningShapeValues}

BaseValues ==
    { [kind |-> "missing", d |-> EmptyBase],
      [kind |-> "dict",    d |-> EmptyBase],
      [kind |-> "dict",    d |-> [poiid |-> PyText(<<"B", "9">>), name |-> PyText(<<"n">>)]] }

DataValues ==
    {NoData("missing"), NoData("none")}
    \cup {[kind |-> "dict", base |-> b, spec |-> sp] : b \in BaseValues, sp \in SpecValues}

NoResult == [exc |-> "none", place |-> <<>>, parsed |-> FALSE,
             mining_shape |-> NoShape]

AsmInit ==
    /\ payload \in [status : StatusValues, data : DataValues]
    /\ fallback_poiid = <<"B", "1">>
    /\ asm_out = NoResult
    /\ asm_pc = "input"

AsmIdle ==
    /\ payload = [status |-> PyNone, data |-> NoData("missing")]
    /\ fallback_poiid = <<>>
    /\ asm_out = NoResult
    /\ asm_pc = "idle"

Assemble ==
    /\ asm_pc = "input"
    /\ asm_out' = build_place_from_payload(payload, fallback_poiid)
    /\ asm_pc' = "done"
    /\ UNCHANGED <<payload, fallback_poiid>>

\* The payload's mining_shape is present but empty, or a sub-object on the
\* way to it is missing.
EmptyOrMissingShape(pl) ==
    \/ pl.data.kind # "dict"
    \/ pl.data.base.kind # "dict"
    \/ pl.data.spec.kind # "dict"
    \/ /\ pl.data.spec.mining_shape.kind = "dict"
       /\ pl.data.spec.mining_shape.d = EmptyMiningShape

\* C1: on a payload with status "1" whose mining_shape is present but empty
\* (or whose data, base or spec is missing) build_place_from_payload raises
\* nothing and returns a PlaceDetail with has_geometry false.
C1_EmptyShapeNoGeometry ==
    (asm_pc = "done" /\ payload.status = PyText(Text1) /\ EmptyOrMissingShape(payload))
        => /\ asm_out.exc = "none"
           /\ asm_out.place # <<>>
           /\ ~has_geometry(asm_out.place[1])

\* C2 as stated: every status other than the string "1" (a missing one
\* included) raises the upstream-failure ValueError, before the geometry is
\* parsed and without a PlaceDetail.
C2_NotSuccessMarkerRaises ==
    (asm_pc = "done" /\ payload.status # PyText(Text1))
        => asm_out.exc = "ValueError" /\ ~asm_out.parsed /\ asm_out.place = <<>>

\* C2 amended: the upstream-failure ValueError is raised exactly for the
\* payloads whose status, rendered by str(), is not "1" (a missing status
\* renders as "None"; the number 1 renders as "1" and passes); when it is
\* raised, no geometry was parsed and no PlaceDetail was made.
C2_StrStatusGate ==
    asm_pc = "done" =>
        /\ (asm_out.exc = "ValueError") <=> (PyStr(payload.status) # Text1)
        /\ asm_out.exc = "ValueError" => (~asm_out.parsed /\ asm_out.place = <<>>)

\* A payload without status that carries a usable shape was refused.
C2_Witness ==
    /\ asm_pc = "done"
    /\ payload.status = PyNone
    /\ payload.data.kind = "dict"
    /\ payload.data.spec.kind = "dict"
    /\ payload.data.spec.mining_shape.d.shape = PyText(GoodShape)
    /\ asm_out.exc = "ValueError"

\* --------------------------------------------------------------- exporters.py
\* Bound: places in one exported batch.
MaxBatch == 3

\* _require_geometry raises ExportError
RequireGeometryFails(place) ==
    ~place.mining_shape.present \/ place.mining_shape.coordinates = <<>>

\* _place_properties with coordinates_to_feature: one GeoJSON feature.
Feature(place) ==
    [type |-> "Feature",
     properties |-> [name |-> place.name, poiid |-> place.poiid],
     geometry |-> [type |-> "Polygon",
                   coordinates |-> <<place.mining_shape.coordinates>>]]

\* writer.poly([...]); writer.record(...): one shapefile record.
ShapeRecord(place) ==
    [poly |-> <<place.mining_shape.coordinates>>,
     record |-> [name |-> place.name, poiid |-> place.poiid]]

\* The loop of export_batch: what the place adds to `skipped` and to the
\* features (or polygon records).
SkippedByRaised(place) == <<>>

SkippedBy(place) == IF ~has_geometry(place) THEN <<place.poiid>> ELSE <<>>

RECURSIVE Skipped(_)
Skipped(places) ==
    IF places = <<>> THEN <<>> ELSE SkippedBy(Head(places)) \o Skipped(Tail(places))

RECURSIVE Features(_)
Features(places) ==
    IF places = <<>> THEN <<>>
    ELSE (IF ~has_geometry(Head(places)) THEN <<>> ELSE <<Feature(Head(places))>>)
         \o Features(Tail(places))

RECURSIVE Records(_)
Records(places) ==
    IF places = <<>> THEN <<>>
    ELSE (IF ~has_geometry(Head(places)) THEN <<>> ELSE <<ShapeRecord(Head(places))>>)
         \o Records(Tail(places))

\* A path is its dot-separated parts; the last of several is the extension.
LowerExt(ext) == IF ext = "SHP" THEN "shp" ELSE ext
EndsWithShp(path) == Len(path) > 1 /\ LowerExt(path[Len(path)]) = "shp"
WithShpSuffix(path) == IF ~EndsWithShp(path) THEN Append(path, "shp") ELSE path

\* The files shapefile.Writer(base) opens, and the descriptor next to them.
WriterFiles == {"shp", "shx", "dbf"}
PrjFile == {"prj"}

NoExport == [call |-> "none", exc |-> "none", path |-> <<>>, skipped |-> <<>>,
             written |-> <<>>, files |-> {}]

ExportFailed(call, files) ==
    [call |-> call, exc |-> "ExportError", path |-> <<>>, skipped |-> <<>>,
     written |-> <<>>, files |-> files]

\* `if not features: raise`
NothingToWriteIfSkipped(written, skipped) == skipped # <<>>

NothingToWrite(written, skipped) == written = <<>>

\* GeoJSONExporter.export
GeoJSONExporter_export(place, file_path) ==
    IF RequireGeometryFails(place) THEN ExportFailed("geojson", {})
    ELSE [call |-> "geojson", exc |-> "none", path |-> file_path, skipped |-> <<>>,
          written |-> <<Feature(place)>>, files |-> {"geojson"}]

\* ShapefileExporter.export
ShapefileExporter_export(place, shp_path) ==
    IF RequireGeometryFails(place) THEN ExportFailed("shapefile", {})
    ELSE [call |-> "shapefile", exc |-> "none", path |-> WithShpSuffix(shp_path),
          skipped |-> <<>>, written |-> <<ShapeRecord(place)>>,
          files |-> WriterFiles \cup PrjFile]

\* GeoJSONExporter.export_batch
GeoJSONBatchResult(features, skipped, file_path) ==
    IF NothingToWrite(features, skipped) THEN ExportFailed("geojson_batch", {})
    ELSE [call |-> "geojson_batch", exc |-> "none", path |-> file_path,
          skipped |-> skipped, written |-> features, files |-> {"geojson"}]

GeoJSONExporter_export_batch(places, file_path) ==
    GeoJSONBatchResult(Features(places), Skipped(places), file_path)

\* ShapefileExporter.export_batch: the writer is created, and with it its
\* files, before the loop; it is closed on both ways out.
ShapefileBatchResult(records, skipped, shp_path) ==
    IF NothingToWrite(records, skipped) THEN ExportFailed("shapefile_batch", WriterFiles)
    ELSE [call |-> "shapefile_batch", exc |-> "none", path |-> shp_path,
          skipped |-> skipped, written |-> records, files |-> WriterFiles \cup PrjFile]

ShapefileExporter_export_batch(places, shp_path) ==
    ShapefileBatchResult(Records(places), Skipped(places), WithShpSuffix(shp_path))

\* ------------------------------------------------------- places to export
ClosedRing ==
    << [lon |-> 116 * Scale, lat |-> 39 * Scale, shifted |-> TRUE],
       [lon |-> 117 * Scale, lat |-> 40 * Scale, shifted |-> TRUE],
       [lon |-> 116 * Scale, lat |-> 39 * Scale, shifted |-> TRUE] >>

PoiIds == {"B1", "B2", "B3"}

ExportShapes ==
    { NoShape,
      MiningShape(<<>>, 0, ClosedRing[1]),
      MiningShape(ClosedRing, 0, ClosedRing[1]) }

ExportPlaces == [poiid : PoiIds, name : {"n"}, mining_shape : ExportShapes]

ExportPaths == { <<"out">>, <<"out", "shp">>, <<"out", "SHP">>, <<"out", "geojson">> }

ExpInit ==
    /\ exp_places = <<>>
    /\ exp_path \in ExportPaths
    /\ exp_out = NoExport
    /\ exp_pc = "input"

ExpIdle ==
    /\ exp_places = <<>>
    /\ exp_path = <<>>
    /\ exp_out = NoExport
    /\ exp_pc = "idle"

\* The caller collects the places of the batch.
AddPlace(place) ==
    /\ exp_pc = "input"
    /\ Len(exp_places) < MaxBatch
    /\ exp_places' = Append(exp_places, place)
    /\ UNCHANGED <<exp_path, exp_out, exp_pc>>

ExportGeoJSON ==
    /\ exp_pc = "input"
    /\ Len(exp_places) = 1
    /\ exp_out' = GeoJSONExporter_export(exp_places[1], exp_path)
    /\ exp_pc' = "done"
    /\ UNCHANGED <<exp_places, exp_path>>

ExportShapefile ==
    /\ exp_pc = "input"
    /\ Len(exp_places) = 1
    /\ exp_out' = ShapefileExporter_export(exp_places[1], exp_path)
    /\ exp_pc' = "done"
    /\ UNCHANGED <<exp_places, exp_path>>

ExportBatchGeoJSON ==
    /\ exp_pc = "input"
    /\ exp_out' = GeoJSONExporter_export_batch(exp_places, exp_path)
    /\ exp_pc' = "done"
    /\ UNCHANGED <<exp_places, exp_path>>

ExportBatchShapefile ==
    /\ exp_pc = "input"
    /\ exp_out' = ShapefileExporter_export_batch(exp_places, exp_path)
    /\ exp_pc' = "done"
    /\ UNCHANGED <<exp_places, exp_path>>

\* The claims' own reading of "the place has geometry": a MiningShape is
\* there and its coordinate list is not empty.
HasRing(place) ==
    place.mining_shape.present /\ Len(place.mining_shape.coordinates) > 0

BatchCall == exp_pc = "done" /\ exp_out.call \in {"geojson_batch", "shapefile_batch"}
SingleCall == exp_pc = "done" /\ exp_out.call \in {"geojson", "shapefile"}

\* C3: export_batch over a batch with at least one place with geometry
\* returns the output path and, as skipped, exactly the poiids of the places
\* without geometry in input order, and writes exactly one feature/record
\* per place with geometry, in input order.
C3_BatchSkipsAndContinues ==
    (BatchCall /\ \E i \in 1..Len(exp_places) : HasRing(exp_places[i])) =>
        LET with    == SelectSeq(exp_places, HasRing)
            without == SelectSeq(exp_places, LAMBDA pl : ~HasRing(pl))
        IN  /\ exp_out.exc = "none"
            /\ exp_out.path # <<>>
            /\ exp_out.skipped = [i \in 1..Len(without) |-> without[i].poiid]
            /\ Len(exp_out.written) = Len(with)
            /\ \A i \in 1..Len(with) :
                 IF exp_out.call = "geojson_batch"
                 THEN /\ exp_out.written[i].properties.poiid = with[i].poiid
                      /\ exp_out.written[i].geometry.coordinates
                           = <<with[i].mining_shape.coordinates>>
                 ELSE /\ exp_out.written[i].record.poiid = with[i].poiid
                      /\ exp_out.written[i].poly = <<with[i].mining_shape.coordinates>>

\* A batch export that met a place without geometry before one with it.
C3_Witness ==
    /\ BatchCall
    /\ Len(exp_places) = 3
    /\ ~HasRing(exp_places[1]) /\ HasRing(exp_places[2]) /\ ~HasRing(exp_places[3])
    /\ Len(exp_out.skipped) = 2 /\ Len(exp_out.written) = 1

\* C4: export_batch raises the nothing-to-export ExportError if and only if
\* every place of the batch lacks geometry.
C4_FailsIffNoGeometryAtAll ==
    BatchCall =>
        ((exp_out.exc = "ExportError")
            <=> (\A i \in 1..Len(exp_places) : ~HasRing(exp_places[i])))

\* A batch of two places, both without geometry, was refused.
C4_Witness ==
    /\ BatchCall
    /\ Len(exp_places) = 2
    /\ \A i \in 1..2 : ~HasRing(exp_places[i])
    /\ exp_out.exc = "ExportError"

\* C5: has_geometry is true iff the place has a MiningShape with a non-empty
\* coordinate list; export raises ExportError exactly for the places whose
\* has_geometry is false and writes output exactly for the others.
C5_HasGeometryDecidesExport ==
    /\ \A i \in 1..Len(exp_places) :
         has_geometry(exp_places[i]) <=> HasRing(exp_places[i])
    /\ SingleCall =>
         /\ (exp_out.exc = "ExportError") <=> ~has_geometry(exp_places[1])
         /\ (exp_out.files # {} /\ Len(exp_out.written) = 1)
              <=> has_geometry(exp_places[1])

\* A single export refused a place whose MiningShape has no coordinates.
C5_Witness ==
    /\ SingleCall
    /\ exp_places[1].mining_shape.present
    /\ exp_places[1].mining_shape.coordinates = <<>>
    /\ exp_out.exc = "ExportError"

\* The file that holds the geometry, by its extension.
GeometryFiles == {"geojson", "shp"}

FailedBatch == BatchCall /\ exp_out.exc = "ExportError"

\* C22: a batch export that raised ExportError has written no geometry file
\* and no coordinate-system descriptor file.
C22_FailedBatchLeavesNothing ==
    FailedBatch => exp_out.files \cap (GeometryFiles \cup PrjFile) = {}

\* --------------------------------------------------------------------- app.py
\* The window's handlers run on the Qt event loop, one at a time.  A modal
\* dialog (dialog.exec_(), QMessageBox) runs a nested event loop: the
\* handler that opened it waits, the user can only answer the dialog, and
\* JavaScript callbacks, timers and interceptor signals keep being served.
\* The handlers are modelled against what the call of
\* GaodeClient.build_place_from_payload can do at its call site (raise, or
\* return a PlaceDetail).

\* Bound: page-cache requests (callbacks and retry timers) under way at once.
MaxInFlight == 2

\* self._pending_attempts[poiid] = 5
CaptureAttempts == 5

\* self._pending_attempts[poiid] = 40
ManualAttempts == 40

CapPoiIds == {"B1", "B2"}
Modes == {"capture", "manual"}
ReqKeys == CapPoiIds \X Modes

\* The polls counted for one request: its budget and one more.
PollCap(mode) ==
    IF mode = "manual" THEN ManualAttempts + 1 ELSE CaptureAttempts + 1

OneMorePoll(polls, mode) ==
    IF polls < PollCap(mode) THEN polls + 1 ELSE polls

\* The places a payload can assemble to: with and without geometry.
ClientPlaces ==
    [poiid : CapPoiIds, name : {"n"},
     mining_shape : {NoShape, MiningShape(ClosedRing, 0, ClosedRing[1])}]

\* dict helpers
EmptyDict == [k \in {} |-> 0]
DictGet(d, k, default) == IF k \in DOMAIN d THEN d[k] ELSE default
DictPop(d, k) == [x \in (DOMAIN d) \ {k} |-> d[x]]
DictPut(d, k, v) == [x \in (DOMAIN d) \cup {k} |-> IF x = k THEN v ELSE d[x]]

NoRequests == [k \in ReqKeys |-> EmptyBag]
InFlight ==
    LET total[S \in SUBSET ReqKeys] ==
            IF S = {} THEN 0
            ELSE LET k == CHOOSE x \in S : TRUE
                 IN  BagCardinality(js_callbacks[k]) + BagCardinality(timers[k])
                     + total[S \ {k}]
    IN  total[ReqKeys]

\* A request joins or leaves the requests waiting under a key.
Joined(waiting, key, polls) ==
    [waiting EXCEPT ![key] = @ (+) SetToBag({polls})]
Left(waiting, key, polls) ==
    [waiting EXCEPT ![key] = @ (-) SetToBag({polls})]

Top(stack) == IF stack = <<>> THEN "none" ELSE stack[Len(stack)]
Pop(stack) == SubSeq(stack, 1, Len(stack) - 1)

NoExportLog == [status |-> "none", exported |-> <<>>, skipped |-> {}]

CapInit ==
    /\ _capturing = FALSE
    /\ _captured_places = <<>>
    /\ _capture_pending = {}
    /\ _pending_attempts = EmptyDict
    /\ _current_place = <<>>
    /\ js_callbacks = NoRequests
    /\ timers = NoRequests
    /\ modals = <<>>
    /\ export_log = NoExportLog

CapIdle == CapInit

\* _store_captured_place: the list after the call.
StoreAlwaysAppends(places, place) == Append(places, place)

StoreCapturedPlace(places, place) ==
    IF \E idx \in 1..Len(places) : places[idx].poiid = place.poiid
    THEN LET idx == CHOOSE i \in 1..Len(places) :
                        /\ places[i].poiid = place.poiid
                        /\ \A j \in 1..(i - 1) : places[j].poiid # place.poiid
         IN  [places EXCEPT ![idx] = place]
    ELSE Append(places, place)

\* _start_capture
StartCapture ==
    /\ modals = <<>>
    /\ ~_capturing
    /\ _capturing' = TRUE
    /\ _captured_places' = <<>>
    /\ _capture_pending' = {}
    /\ _pending_attempts' = EmptyDict
    /\ UNCHANGED <<_current_place, js_callbacks, timers, modals, export_log>>

\* _stop_capture, up to the dialog it opens: the message box when nothing
\* was captured, else the export options dialog of _prompt_batch_export.
StopCapture ==
    /\ modals = <<>>
    /\ _capturing
    /\ _capturing' = FALSE
    /\ _pending_attempts' = EmptyDict
    /\ modals' = IF _captured_places = <<>> THEN <<"nothing_captured">>
                 ELSE <<"export_options">>
    /\ UNCHANGED <<_captured_places, _capture_pending, _current_place,
                   js_callbacks, timers, export_log>>

\* _prompt_batch_export: the dialog is cancelled.
DialogRejected ==
    /\ Top(modals) = "export_options"
    /\ modals' = Pop(modals)
    /\ UNCHANGED <<_capturing, _captured_places, _capture_pending,
                   _pending_attempts, _current_place, js_callbacks, timers,
                   export_log>>

\* The formats ticked in the dialog: at least one (_handle_accept).
ExportOptions ==
    { [save_geojson |-> TRUE,  save_shapefile |-> FALSE],
      [save_geojson |-> FALSE, save_shapefile |-> TRUE],
      [save_geojson |-> TRUE,  save_shapefile |-> TRUE] }

\* The try block of _export_capture_results: the calls of export_batch.
BatchExports(options, places) ==
    (IF options.save_geojson
     THEN {GeoJSONExporter_export_batch(places, <<"gaode", "geojson">>)} ELSE {})
    \cup
    (IF options.save_shapefile
     THEN {ShapefileExporter_export_batch(places, <<"gaode", "shp">>)} ELSE {})

ExportLogOf(results, places) ==
    IF \E r \in results : r.exc = "ExportError"
    THEN [status |-> "failed", exported |-> <<>>, skipped |-> {}]
    ELSE [status |-> "done", exported |-> places,
          skipped |-> UNION {{r.skipped[i] : i \in 1..Len(r.skipped)} : r \in results}]

\* _prompt_batch_export accepted: _export_capture_results up to the message
\* box it shows ("导出失败" on ExportError, else "批量导出完成").
DialogAccepted(options) ==
    /\ Top(modals) = "export_options"
    /\ export_log' = ExportLogOf(BatchExports(options, _captured_places), _captured_places)
    /\ modals' = Append(Pop(modals),
                        IF export_log'.status = "failed" THEN "export_failed"
                        ELSE "export_done")
    /\ UNCHANGED <<_capturing, _captured_places, _capture_pending,
                   _pending_attempts, _current_place, js_callbacks, timers>>

\* What the handler does once its message box is closed:
\* _export_capture_results clears the collection after "批量导出完成".
AfterBoxKeepsAll(box, places) == places

AfterBox(box, places) == IF box = "export_done" THEN <<>> ELSE places

CloseBox ==
    /\ Top(modals) \in {"nothing_captured", "export_failed", "export_done",
                       "fetch_failed"}
    /\ _captured_places' = AfterBox(Top(modals), _captured_places)
    /\ modals' = Pop(modals)
    /\ UNCHANGED <<_capturing, _capture_pending, _pending_attempts,
                   _current_place, js_callbacks, timers, export_log>>

\* _on_poi_from_web, with the _request_place_from_web_cache it ends in.
OnPoiFromWeb(poiid) ==
    /\ InFlight < MaxInFlight
    /\ IF \/ ~_capturing
          \/ poiid \in _capture_pending
          \/ \E i \in 1..Len(_captured_places) : _captured_places[i].poiid = poiid
       THEN UNCHANGED <<_capture_pending, _pending_attempts, js_callbacks>>
       ELSE /\ _capture_pending' = _capture_pending \cup {poiid}
            /\ _pending_attempts' = DictPut(_pending_attempts, poiid, CaptureAttempts)
            /\ js_callbacks' = Joined(js_callbacks, <<poiid, "capture">>, 1)
    /\ UNCHANGED <<_capturing, _captured_places, _current_place, timers,
                   modals, export_log>>

\* _fetch_place with a POI number typed in: the budget is set and the
\* first poll is left to a timer.
FetchPlace(poiid) ==
    /\ modals = <<>>
    /\ InFlight < MaxInFlight
    /\ _pending_attempts' = DictPut(_pending_attempts, poiid, ManualAttempts)
    /\ timers' = Joined(timers, <<poiid, "manual">>, 0)
    /\ UNCHANGED <<_capturing, _captured_places, _capture_pending,
                   _current_place, js_callbacks, modals, export_log>>

\* A timer of _fetch_place or of _handle_web_payload_result fires:
\* _request_place_from_web_cache polls the page.
RetryTimerFires(poiid, mode) ==
    /\ \E polls \in BagToSet(timers[<<poiid, mode>>]) :
         /\ timers' = Left(timers, <<poiid, mode>>, polls)
         /\ js_callbacks' =
               Joined(js_callbacks, <<poiid, mode>>, OneMorePoll(polls, mode))
    /\ UNCHANGED <<_capturing, _captured_places, _capture_pending,
                   _pending_attempts, _current_place, modals, export_log>>

\* _handle_web_payload_result with a result that parsed and assembled:
\* the else branch, and _handle_place_ready.
PlaceDelivered(poiid, mode, place) ==
    /\ \E polls \in BagToSet(js_callbacks[<<poiid, mode>>]) :
         js_callbacks' = Left(js_callbacks, <<poiid, mode>>, polls)
    /\ _pending_attempts' = DictPop(_pending_attempts, poiid)
    /\ _capture_pending' = IF mode = "capture" THEN _capture_pending \ {poiid}
                           ELSE _capture_pending
    /\ _captured_places' = IF mode = "manual" THEN _captured_places
                           ELSE StoreCapturedPlace(_captured_places, place)
    /\ _current_place' = <<place>>
    /\ UNCHANGED <<_capturing, timers, modals, export_log>>

\* attempts = self._pending_attempts.get(poiid, 0) - 1
AttemptsLeft(attempts, poiid) == DictGet(attempts, poiid, 0) - 1

\* _handle_payload_failure: a message box in manual mode, a status line
\* in capture mode.
AfterFailure(stack, mode) ==
    IF mode = "manual" THEN Append(stack, "fetch_failed") ELSE stack

\* _handle_web_payload_result with no result, or with one that json.loads
\* or build_place_from_payload raised on: retry, or give up
\* (_handle_payload_failure).
NoPlaceDelivered(poiid, mode) ==
    /\ \E polls \in BagToSet(js_callbacks[<<poiid, mode>>]) :
         /\ js_callbacks' = Left(js_callbacks, <<poiid, mode>>, polls)
         /\ IF AttemptsLeft(_pending_attempts, poiid) > 0
            THEN /\ _pending_attempts' =
                      DictPut(_pending_attempts, poiid,
                              AttemptsLeft(_pending_attempts, poiid))
                 /\ timers' = Joined(timers, <<poiid, mode>>, polls)
                 /\ UNCHANGED <<_capture_pending, modals>>
            ELSE /\ _pending_attempts' = DictPop(_pending_attempts, poiid)
                 /\ _capture_pending' =
                      IF mode = "capture" THEN _capture_pending \ {poiid}
                      ELSE _capture_pending
                 /\ modals' = AfterFailure(modals, mode)
                 /\ UNCHANGED timers
    /\ UNCHANGED <<_capturing, _captured_places, _current_place, export_log>>

\* C6: the captured collection never holds two places with one poiid;
\* storing a place whose poiid is present puts it in the place of the
\* existing entry and changes neither the size nor the other entries;
\* storing a place with a new poiid appends it.
C6_StoreReplacesOrAppends ==
    [][ /\ \A i, j \in 1..Len(_captured_places') :
             _captured_places'[i].poiid = _captured_places'[j].poiid => i = j
        /\ \A poiid \in CapPoiIds, place \in ClientPlaces :
             PlaceDelivered(poiid, "capture", place) =>
                LET old == _captured_places
                    new == _captured_places'
                    at  == {i \in 1..Len(old) : old[i].poiid = place.poiid}
                IN  IF at # {}
                    THEN /\ Len(new) = Len(old)
                         /\ \A i \in 1..Len(old) :
                              new[i] = IF i \in at THEN place ELSE old[i]
                    ELSE /\ Len(new) = Len(old) + 1
                         /\ new[Len(new)] = place
                         /\ \A i \in 1..Len(old) : new[i] = old[i]
      ]_vars

\* The place stored last sits first in a collection of two: it took the
\* place of the entry with its poiid.
C6_Witness ==
    /\ Len(_captured_places) = 2
    /\ _current_place = <<_captured_places[1]>>

PollPoiIds == {"B1"}
PollKeys == PollPoiIds \X Modes

\* The attempts a request is started with.
Budget(mode) == IF mode = "manual" THEN ManualAttempts ELSE CaptureAttempts

\* The requests under a key that have not ended, each by its polls.
Requests(key) == BagToSet(js_callbacks[key]) \cup BagToSet(timers[key])

\* The return key is pressed in the POI field while no fetch of the
\* identifier is under way.
FetchWhenIdle(poiid) ==
    /\ Requests(<<poiid, "manual">>) = {}
    /\ FetchPlace(poiid)

\* The page answers a poll: with a payload that assembles, or without.
CallbackDelivered(poiid, mode) ==
    \/ \E place \in {p \in ClientPlaces : p.poiid = poiid} :
          PlaceDelivered(poiid, mode, place)
    \/ NoPlaceDelivered(poiid, mode)

\* C18: every request ends, and in capture mode its identifier leaves the
\* pending set: a request that is waiting for a timer or for a callback is
\* followed by a state in which no request of its identifier and mode is
\* waiting, and a pending identifier by a state in which it is not pending.
C18_EveryRequestEnds ==
    /\ \A key \in PollKeys : (Requests(key) # {}) ~> (Requests(key) = {})
    /\ \A poiid \in PollPoiIds :
          (poiid \in _capture_pending) ~> (poiid \notin _capture_pending)

C20_PollsWithinBudget ==
    \A key \in ReqKeys : \A polls \in Requests(key) : polls <= Budget(key[2])

\* The requests of one identifier and mode that have not ended.
ChainsInFlight(key) ==
    BagCardinality(js_callbacks[key]) + BagCardinality(timers[key])

\* A step in which _on_poi_from_web starts a capture request for poiid.
CaptureRequestStarts(poiid) ==
    ChainsInFlight(<<poiid, "capture">>)' > ChainsInFlight(<<poiid, "capture">>)

\* The first half of C21: a capture request is started only while capture
\* is in progress, for an identifier neither pending nor captured.
StartsOnlyWhenEligible ==
    [][ \A poiid \in CapPoiIds :
          CaptureRequestStarts(poiid)
          => /\ _capturing
             /\ poiid \notin _capture_pending
             /\ \A i \in 1..Len(_captured_places) :
                   _captured_places[i].poiid # poiid ]_vars

\* C21: at most one capture-mode polling chain per identifier is in flight
\* at any time: of the requests for one identifier in capture mode, at most
\* one is waiting for a retry timer or for the callback of its poll.
C21_OneCaptureChainPerId ==
    \A poiid \in CapPoiIds : ChainsInFlight(<<poiid, "capture">>) <= 1

\* ------------------------------------------- geometry_utils: serialization
\* Vertices in all the rings of one round trip.
MaxPts == 4

Abs(v) == IF v < 0 THEN 0 - v ELSE v

\* Rounding of the "f" format: to the nearest multiple of `unit`, a tie to
\* the even one.
RoundDown(mag, unit) == mag \div unit

RoundHalfEven(mag, unit) ==
    IF \/ 2 * (mag % unit) > unit
       \/ 2 * (mag % unit) = unit /\ (mag \div unit) % 2 = 1
    THEN (mag \div unit) + 1
    ELSE mag \div unit

\* n written with exactly `count` digits.
PadDigits(n, count) ==
    [i \in 1..count |-> DigitChar((n \div Pow10(count - i)) % 10)]

\* The digits of a magnitude counted in 10^-digits units.
FixedText(rounded, digits) ==
    NatToDigits(rounded \div Pow10(digits))
    \o (IF digits = 0 THEN <<>>
        ELSE <<".">> \o PadDigits(rounded % Pow10(digits), digits))

\* f"{{:.{precision}f}}".format(v)
FormatFixed(v, digits) ==
    (IF v < 0 THEN <<"-">> ELSE <<>>)
    \o FixedText(RoundHalfEven(Abs(v), Pow10(FracDigits - digits)), digits)

PointText(pt, digits) ==
    FormatFixed(pt[1], digits) \o <<",">> \o FormatFixed(pt[2], digits)

\* `points` of coordinates_to_shape_string, for non-empty coords.
SerializedPoints(coords, close_ring) ==
    IF coords[1] = coords[Len(coords)] /\ ~close_ring
    THEN SubSeq(coords, 1, Len(coords) - 1)
    ELSE IF close_ring /\ coords[1] # coords[Len(coords)]
    THEN Append(coords, coords[1])
    ELSE coords

PointsText(points, digits) ==
    Join([i \in 1..Len(points) |-> PointText(points[i], digits)], ";")

coordinates_to_shape_string(coords, digits, close_ring) ==
    IF coords = <<>> THEN <<>>
    ELSE PointsText(SerializedPoints(coords, close_ring), digits)

rings_to_shape_string(rs, digits, close) ==
    Join(SelectSeq([i \in 1..Len(rs) |->
                       coordinates_to_shape_string(rs[i], digits, close)],
                   LAMBDA text : text # <<>>),
         "@")

\* ------------------------------------------------------- round-trip inputs
\* Coordinates that are exact as doubles: quarters, of either sign.
Quarter == Scale \div 4

RtPoints ==
    { <<Quarter, 2 * Quarter>>,
      <<2 * Quarter, Quarter>>,
      <<0 - 3 * Quarter, 6 * Quarter>> }

RECURSIVE PointCount(_)
PointCount(rs) == IF rs = <<>> THEN 0 ELSE Len(Head(rs)) + PointCount(Tail(rs))

RtInit ==
    /\ rt_rings = <<>>
    /\ precision \in 0..FracDigits
    /\ close_rings \in BOOLEAN
    /\ rt_text = <<>>
    /\ rt_back = <<>>
    /\ rt_pc = "input"

RtIdle ==
    /\ rt_rings = <<>>
    /\ precision = 0
    /\ close_rings = TRUE
    /\ rt_text = <<>>
    /\ rt_back = <<>>
    /\ rt_pc = "idle"

\* The caller starts a ring with one vertex.
NewRing(point) ==
    /\ rt_pc = "input"
    /\ PointCount(rt_rings) < MaxPts
    /\ rt_rings' = Append(rt_rings, <<point>>)
    /\ UNCHANGED <<precision, close_rings, rt_text, rt_back, rt_pc>>

\* The caller adds a vertex to the last ring.
AddPoint(point) ==
    /\ rt_pc = "input"
    /\ rt_rings # <<>>
    /\ PointCount(rt_rings) < MaxPts
    /\ rt_rings' = [rt_rings EXCEPT ![Len(rt_rings)] = Append(@, point)]
    /\ UNCHANGED <<precision, close_rings, rt_text, rt_back, rt_pc>>

Serialize ==
    /\ rt_pc = "input"
    /\ rt_rings # <<>>
    /\ rt_text' = rings_to_shape_string(rt_rings, precision, close_rings)
    /\ rt_pc' = "text"
    /\ UNCHANGED <<rt_rings, precision, close_rings, rt_back>>

ParseBack ==
    /\ rt_pc = "text"
    /\ rt_back' = parse_shape_rings(Str(rt_text))
    /\ rt_pc' = "parsed"
    /\ UNCHANGED <<rt_rings, precision, close_rings, rt_text>>

\* Two coordinates agree up to half a unit of the last digit kept.
SameUpToPrecision(a, b) ==
    /\ 2 * Abs(a[1] - b[1]) <= Pow10(FracDigits - precision)
    /\ 2 * Abs(a[2] - b[2]) <= Pow10(FracDigits - precision)

\* A parsed ring has the vertices of the serialized ring, one for one.
SameRing(back, points) ==
    /\ Len(back) = Len(points)
    /\ \A j \in 1..Len(points) : SameUpToPrecision(back[j], points[j])

\* The rings that rings_to_shape_string writes with the option given.
Written(close) ==
    SelectSeq([i \in 1..Len(rt_rings) |-> SerializedPoints(rt_rings[i], close)],
              LAMBDA points : points # <<>>)

\* C10 as stated: with either value of the close option the round trip
\* returns as many rings as it was given, each with the vertices of the
\* serialized ring up to the precision, open if serialized open and closed
\* if serialized closed.
C10_RoundTripKeepsClosure ==
    rt_pc = "parsed" =>
        /\ Len(rt_back) = Len(rt_rings)
        /\ \A i \in 1..Len(rt_rings) :
             i <= Len(rt_back)
             /\ SameRing(rt_back[i], SerializedPoints(rt_rings[i], close_rings))

\* C10 amended: with close_rings true the round trip returns as many rings
\* as it was given, each the closed ring that was written, up to the
\* precision.  With close_rings false it returns one ring for each ring
\* that was written (a ring of a single vertex is not written), every one
\* of them closed: the vertices written, up to the precision, followed by
\* the first vertex again unless the last one parsed equal to it.
C10_RoundTripClosesRings ==
    rt_pc = "parsed" =>
        /\ Len(rt_back) = Len(Written(close_rings))
        /\ close_rings => Len(rt_back) = Len(rt_rings)
        /\ \A i \in 1..Len(rt_back) :
             /\ rt_back[i][1] = rt_back[i][Len(rt_back[i])]
             /\ IF close_rings
                THEN SameRing(rt_back[i], Written(TRUE)[i])
                ELSE \/ SameRing(rt_back[i], Written(FALSE)[i])
                     \/ SameRing(rt_back[i],
                                 Append(Written(FALSE)[i], Written(FALSE)[i][1]))

\* Two rings, the first open, written closed with digits dropped and read
\* back with a first coordinate that rounding changed.
C10_Witness ==
    /\ rt_pc = "parsed"
    /\ close_rings
    /\ precision < FracDigits
    /\ Len(rt_rings) = 2
    /\ rt_rings[1][1] # rt_rings[1][Len(rt_rings[1])]
    /\ Len(rt_back) = 2
    /\ rt_back[1][1] # rt_rings[1][1]

\* ------------------------------------------------------ transform inputs
\* Vertices in the ring handed to convert_gcj02_polygon.
MaxVerts == 2

\* A value written in ten-thousandths of a degree, in 1/Scale units.
TenThousandths(n) ==
    IF FracDigits >= 4 THEN n * Pow10(FracDigits - 4)
    ELSE n \div Pow10(4 - FracDigits)

\* Longitudes and latitudes on, just inside and just outside each bound
\* of the envelope, and one in its middle.
TrLons ==
    {TenThousandths(720039), TenThousandths(720040), TenThousandths(1050000),
     TenThousandths(1378347), TenThousandths(1378348)}

TrLats ==
    {TenThousandths(8292), TenThousandths(8293), TenThousandths(350000),
     TenThousandths(558271), TenThousandths(558272)}

TrPoints == {<<lon, lat>> : lon \in TrLons, lat \in TrLats}

TrInit ==
    /\ tr_coords = <<>>
    /\ tr_out = <<>>
    /\ tr_pc = "input"

TrIdle ==
    /\ tr_coords = <<>>
    /\ tr_out = <<>>
    /\ tr_pc = "idle"

\* The caller adds a vertex to the ring.
AddVertex(point) ==
    /\ tr_pc = "input"
    /\ Len(tr_coords) < MaxVerts
    /\ tr_coords' = Append(tr_coords, point)
    /\ UNCHANGED <<tr_out, tr_pc>>

Convert ==
    /\ tr_pc = "input"
    /\ tr_out' = convert_gcj02_polygon(tr_coords)
    /\ tr_pc' = "done"
    /\ UNCHANGED tr_coords

\* The point lies strictly beyond a bound of the envelope on some axis.
BeyondEnvelope(pt) ==
    \/ pt[1] < TenThousandths(720040) \/ pt[1] > TenThousandths(1378347)
    \/ pt[2] < TenThousandths(8293)   \/ pt[2] > TenThousandths(558271)

\* C11: gcj02_to_wgs84 returns a point strictly beyond a bound of the
\* envelope as it was given, and corrects every other point, those on a
\* bound included.
C11_IdentityOutsideEnvelope ==
    tr_pc = "done" =>
        \A i \in 1..Len(tr_coords) :
            IF BeyondEnvelope(tr_coords[i])
            THEN tr_out[i] = [lon |-> tr_coords[i][1], lat |-> tr_coords[i][2],
                              shifted |-> FALSE]
            ELSE tr_out[i].shifted

\* A ring converted with a vertex on a corner of the envelope, corrected,
\* and a vertex one step outside it, returned as given.
C11_Witness ==
    /\ tr_pc = "done"
    /\ \E i, j \in 1..Len(tr_coords) :
         /\ tr_coords[i] = <<TenThousandths(720040), TenThousandths(558271)>>
         /\ tr_out[i].shifted
         /\ tr_coords[j] = <<TenThousandths(720039), TenThousandths(558271)>>
         /\ ~tr_out[j].shifted

\* C12: convert_gcj02_polygon returns as many vertices as it was given,
\* vertex i being gcj02_to_wgs84 of input vertex i.
C12_PerVertexInOrder ==
    tr_pc = "done" =>
        /\ Len(tr_out) = Len(tr_coords)
        /\ \A i \in 1..Len(tr_coords) : tr_out[i] = gcj02_to_wgs84(tr_coords[i])

\* A ring of two different vertices, one corrected and one not, converted.
C12_Witness ==
    /\ tr_pc = "done"
    /\ Len(tr_coords) = 2
    /\ tr_coords[1] # tr_coords[2]
    /\ tr_out[1].shifted
    /\ ~tr_out[2].shifted

\* ------------------------------------------- geometry_utils: view fitting
\* Points in the list handed to normalize_to_view.
MaxNvPts == 2

\* Binary digits after the point that a canvas float carries: the scale
\* factor is the quotient rounded to the nearest multiple of 1/Quantum, as
\* the division of two doubles is rounded to the nearest double.
FracBits == 3

RECURSIVE Pow2(_)
Pow2(n) == IF n = 0 THEN 1 ELSE 2 * Pow2(n - 1)

Quantum == Pow2(FracBits)

MinOf(S) == CHOOSE m \in S : \A n \in S : m <= n
MaxOf(S) == CHOOSE m \in S : \A n \in S : m >= n

Xs(coords) == {coords[i][1] : i \in 1..Len(coords)}
Ys(coords) == {coords[i][2] : i \in 1..Len(coords)}

\* compute_bounds on a non-empty list
compute_bounds(coords) ==
    [min_x |-> MinOf(Xs(coords)), min_y |-> MinOf(Ys(coords)),
     max_x |-> MaxOf(Xs(coords)), max_y |-> MaxOf(Ys(coords))]

\* (extent) / max(diff, 1e-6), in 1/Quantum units; the coordinates fed in
\* are whole degrees, so a difference below 1e-6 is 0.
FitScale(extent, diff) ==
    IF diff = 0 THEN extent * Quantum * 1000000
    ELSE RoundHalfEven(extent * Quantum, diff)

SmallerOf(a, b) == IF a <= b THEN a ELSE b
LargerOf(a, b) == IF a >= b THEN a ELSE b

\* The larger of the two fit scales.
ScaleOfLarger(bounds, w, h, pad) ==
    LargerOf(FitScale(w - 2 * pad, bounds.max_x - bounds.min_x),
             FitScale(h - 2 * pad, bounds.max_y - bounds.min_y))

\* scale = min(scale_x, scale_y)
ScaleOf(bounds, w, h, pad) ==
    SmallerOf(FitScale(w - 2 * pad, bounds.max_x - bounds.min_x),
              FitScale(h - 2 * pad, bounds.max_y - bounds.min_y))

\* The loop of normalize_to_view: (nx, ny) of every point.
Normalized(coords, bounds, scale, h, pad) ==
    [i \in 1..Len(coords) |->
        << pad * Quantum + (coords[i][1] - bounds.min_x) * scale,
           h * Quantum - (pad * Quantum + (coords[i][2] - bounds.min_y) * scale) >>]

NormalizeWith(coords, bounds, w, h, pad) ==
    Normalized(coords, bounds, ScaleOf(bounds, w, h, pad), h, pad)

normalize_to_view(coords, w, h, pad) ==
    IF coords = <<>> THEN <<>>
    ELSE NormalizeWith(coords, compute_bounds(coords), w, h, pad)

\* ------------------------------------------------------ view fitting inputs
NvPoints == {<<0, 0>>, <<3, 1>>, <<1, 3>>, <<3, 3>>, <<2, 0>>}

\* Canvases larger than twice the padding.
NvWidths == {22, 24}
NvHeights == {22, 25}
NvPaddings == {1}

NvInit ==
    /\ nv_coords = <<>>
    /\ width \in NvWidths
    /\ height \in NvHeights
    /\ padding \in NvPaddings
    /\ nv_out = <<>>
    /\ nv_pc = "input"

NvIdle ==
    /\ nv_coords = <<>>
    /\ width = 0
    /\ height = 0
    /\ padding = 0
    /\ nv_out = <<>>
    /\ nv_pc = "idle"

\* The caller adds a point to the list.
AddViewPoint(point) ==
    /\ nv_pc = "input"
    /\ Len(nv_coords) < MaxNvPts
    /\ nv_coords' = Append(nv_coords, point)
    /\ UNCHANGED <<width, height, padding, nv_out, nv_pc>>

Normalize ==
    /\ nv_pc = "input"
    /\ nv_out' = normalize_to_view(nv_coords, width, height, padding)
    /\ nv_pc' = "done"
    /\ UNCHANGED <<nv_coords, width, height, padding>>

\* One output point per input point, in order, with one factor on both
\* axes and Y flipped: the differences between two output points are the
\* differences between the input points times one positive factor, the
\* vertical one negated.
NvSameShape ==
    /\ Len(nv_out) = Len(nv_coords)
    /\ \E factor \in 1..(LargerOf(width, height) * Quantum) :
         \A i, j \in 1..Len(nv_coords) :
            /\ nv_out[i][1] - nv_out[j][1] = (nv_coords[i][1] - nv_coords[j][1]) * factor
            /\ nv_out[j][2] - nv_out[i][2] = (nv_coords[i][2] - nv_coords[j][2]) * factor

\* C13 as stated: every point lands in [padding, width-padding] by
\* [padding, height-padding], one output point per input point in order,
\* one scale factor on both axes, Y flipped.
C13_FitsInsidePadding ==
    (nv_pc = "done" /\ nv_coords # <<>>) =>
        /\ NvSameShape
        /\ \A i \in 1..Len(nv_out) :
             /\ padding * Quantum <= nv_out[i][1]
             /\ nv_out[i][1] <= (width - padding) * Quantum
             /\ padding * Quantum <= nv_out[i][2]
             /\ nv_out[i][2] <= (height - padding) * Quantum

\* C13 amended: the near edges (x = padding, y = height-padding) are
\* exact; the far edges (x = width-padding, y = padding) are kept up to
\* the rounding of the scale factor, half a unit of its last place for
\* each degree of the span.
C13_FitsUpToRounding ==
    (nv_pc = "done" /\ nv_coords # <<>>) =>
        /\ NvSameShape
        /\ \A i \in 1..Len(nv_out) :
             /\ padding * Quantum <= nv_out[i][1]
             /\ 2 * (nv_out[i][1] - (width - padding) * Quantum)
                   <= MaxOf(Xs(nv_coords)) - MinOf(Xs(nv_coords))
             /\ nv_out[i][2] <= (height - padding) * Quantum
             /\ 2 * (padding * Quantum - nv_out[i][2])
                   <= MaxOf(Ys(nv_coords)) - MinOf(Ys(nv_coords))

\* Two points apart on both axes, normalized to the two corners of the
\* padded box along the tighter axis.
C13_Witness ==
    /\ nv_pc = "done"
    /\ Len(nv_coords) = 2
    /\ nv_coords[1][1] < nv_coords[2][1]
    /\ nv_coords[1][2] < nv_coords[2][2]
    /\ nv_out[1] = <<padding * Quantum, (height - padding) * Quantum>>
    /\ nv_out[2][1] > nv_out[1][1]
    /\ nv_out[2][2] < nv_out[1][2]

\* ------------------------------------- geometry_utils: GeoJSON to shape text
\* Rings and polygons in the geometry of one feature.
MaxParts == 4

\* feature.get("geometry") or {}: a feature without geometry, or with
\* "geometry": null, reads as a geometry without type and coordinates.
NoGeometry == [type |-> "None", coordinates |-> <<>>]

GeometryOf(feat) == IF feat.geometry = <<>> THEN NoGeometry ELSE feat.geometry[1]

\* The loop over the polygons stopping after the first polygon.
FirstPolygonOnly(polygons) ==
    IF polygons = <<>> THEN <<>> ELSE Head(polygons)

\* for polygon in coords: for ring in polygon: rings.append(...)
RECURSIVE FlattenPolygons(_)
FlattenPolygons(polygons) ==
    IF polygons = <<>> THEN <<>>
    ELSE Head(polygons) \o FlattenPolygons(Tail(polygons))

FeatureText(rs, digits, close) ==
    [exc |-> "none", text |-> rings_to_shape_string(rs, digits, close)]

UnsupportedGeometry == [exc |-> "ValueError", text |-> <<>>]

ShapeOfGeometry(geometry, digits, close) ==
    IF geometry.type = "Polygon"
    THEN FeatureText(geometry.coordinates, digits, close)
    ELSE IF geometry.type = "MultiPolygon"
    THEN FeatureText(FlattenPolygons(geometry.coordinates), digits, close)
    ELSE UnsupportedGeometry

feature_to_shape_string(feat, digits, close) ==
    ShapeOfGeometry(GeometryOf(feat), digits, close)

\* ----------------------------------------------------------- feature inputs
GeometryTypes == {"Polygon", "MultiPolygon", "Point", "LineString"}

FtRings ==
    { << <<Quarter, 2 * Quarter>>, <<2 * Quarter, Quarter>> >>,
      << <<0 - 3 * Quarter, 6 * Quarter>> >>,
      << <<2 * Quarter, Quarter>>, <<Quarter, 2 * Quarter>>,
         <<2 * Quarter, Quarter>> >> }

FtNoResult == [exc |-> "none", text |-> <<>>]

FtInit ==
    /\ feature \in {[geometry |-> <<>>]}
          \cup {[geometry |-> <<[type |-> t, coordinates |-> <<>>]>>] :
                    t \in GeometryTypes}
    /\ ft_precision \in {0, FracDigits}
    /\ ft_close \in BOOLEAN
    /\ ft_out = FtNoResult
    /\ ft_pc = "input"

FtIdle ==
    /\ feature = [geometry |-> <<>>]
    /\ ft_precision = 0
    /\ ft_close = TRUE
    /\ ft_out = FtNoResult
    /\ ft_pc = "idle"

\* Rings and polygons the geometry holds so far.
PartCount(geometry) ==
    IF geometry.type = "MultiPolygon"
    THEN Len(geometry.coordinates) + Len(FlattenPolygons(geometry.coordinates))
    ELSE Len(geometry.coordinates)

\* The caller adds a ring: to the last polygon of a MultiPolygon, to the
\* coordinates of any other geometry.
FtAddRing(ring) ==
    /\ ft_pc = "input"
    /\ feature.geometry # <<>>
    /\ PartCount(feature.geometry[1]) < MaxParts
    /\ IF feature.geometry[1].type = "MultiPolygon"
       THEN /\ feature.geometry[1].coordinates # <<>>
            /\ feature' = [feature EXCEPT
                  !.geometry[1].coordinates[Len(feature.geometry[1].coordinates)] =
                      Append(@, ring)]
       ELSE feature' = [feature EXCEPT !.geometry[1].coordinates = Append(@, ring)]
    /\ UNCHANGED <<ft_precision, ft_close, ft_out, ft_pc>>

\* The caller starts a polygon in a MultiPolygon.
FtAddPolygon ==
    /\ ft_pc = "input"
    /\ feature.geometry # <<>>
    /\ feature.geometry[1].type = "MultiPolygon"
    /\ PartCount(feature.geometry[1]) < MaxParts
    /\ feature' = [feature EXCEPT !.geometry[1].coordinates = Append(@, <<>>)]
    /\ UNCHANGED <<ft_precision, ft_close, ft_out, ft_pc>>

FeatureToShapeString ==
    /\ ft_pc = "input"
    /\ ft_out' = feature_to_shape_string(feature, ft_precision, ft_close)
    /\ ft_pc' = "done"
    /\ UNCHANGED <<feature, ft_precision, ft_close>>

\* The texts of the polygons of a MultiPolygon, each serialized on its own.
PolygonTexts(polygons) ==
    SelectSeq([k \in 1..Len(polygons) |->
                  rings_to_shape_string(polygons[k], ft_precision, ft_close)],
              LAMBDA text : text # <<>>)

\* C14: feature_to_shape_string returns the text of the rings of a Polygon
\* in order, the texts of the polygons of a MultiPolygon one after the
\* other in order, and raises ValueError, returning no text, for any other
\* geometry type and for a feature without geometry.
C14_PolygonTypesOnly ==
    ft_pc = "done" =>
        IF feature.geometry # <<>> /\ feature.geometry[1].type = "Polygon"
        THEN /\ ft_out.exc = "none"
             /\ ft_out.text = rings_to_shape_string(feature.geometry[1].coordinates,
                                                    ft_precision, ft_close)
        ELSE IF feature.geometry # <<>> /\ feature.geometry[1].type = "MultiPolygon"
        THEN /\ ft_out.exc = "none"
             /\ ft_out.text = Join(PolygonTexts(feature.geometry[1].coordinates), "@")
        ELSE ft_out = UnsupportedGeometry

\* A MultiPolygon of two polygons with a ring each, converted to a text
\* of two rings.
C14_Witness ==
    /\ ft_pc = "done"
    /\ feature.geometry # <<>>
    /\ feature.geometry[1].type = "MultiPolygon"
    /\ Len(feature.geometry[1].coordinates) = 2
    /\ feature.geometry[1].coordinates[1] # <<>>
    /\ feature.geometry[1].coordinates[2] # <<>>
    /\ ft_close
    /\ Len(Split(ft_out.text, "@")) = 2

\* -------------------------------------------- claims on the MiningShape built
\* The mining_shape object of the payload, as build_place_from_payload
\* reads it, and the ring it parses from it.
RawOf(pl) == MiningShapeRawOf(DataOf(pl))

\* The call passed the status gate and parsed a shape with a vertex.
ShapeParsed ==
    /\ asm_pc = "done"
    /\ ~StatusFails(payload.status)
    /\ parse_shape_string(ShapeArg(RawOf(payload).shape)) # <<>>

\* C15: the MiningShape holds the corrected vertices of every ring of the
\* shape string, in order.
C15_AllRingsKept ==
    (ShapeParsed /\ asm_out.exc \notin {"AttributeError", "OverflowError"}) =>
        /\ asm_out.mining_shape.present
        /\ asm_out.mining_shape.coordinates =
              convert_gcj02_polygon(
                  FlattenPolygons(parse_shape_rings(ShapeArg(RawOf(payload).shape))))

\* The center the claim describes: the corrected center field when it is a
\* text of two comma-separated numbers, else the first corrected vertex.
CenterAsStated(center, first) ==
    IF /\ center.t = "str"
       /\ Len(Split(center.s, ",")) = 2
       /\ float(Split(center.s, ",")[1]).ok
       /\ float(Split(center.s, ",")[2]).ok
    THEN gcj02_to_wgs84(<<float(Split(center.s, ",")[1]).val,
                          float(Split(center.s, ",")[2]).val>>)
    ELSE first

\* C16: whatever the center field holds, the MiningShape is built and its
\* center is the corrected center field when that parses as two numbers,
\* else the first corrected vertex.
C16_CenterNeverFails ==
    (ShapeParsed /\ asm_out.exc # "OverflowError") =>
        /\ asm_out.mining_shape.present
        /\ asm_out.mining_shape.center =
              << CenterAsStated(RawOf(payload).center,
                     gcj02_to_wgs84(
                         parse_shape_string(ShapeArg(RawOf(payload).shape))[1])) >>

\* C17: whatever the level field holds, the MiningShape is built; its level
\* is 0 when the field is absent or a text that is not an integer, and the
\* integer when the field is an integer or the text of one.
C17_LevelNeverFails ==
    (ShapeParsed /\ asm_out.exc # "AttributeError") =>
        /\ asm_out.mining_shape.present
        /\ RawOf(payload).level.t = "none" => asm_out.mining_shape.level = 0
        /\ RawOf(payload).level.t \in {"str", "int"} =>
              asm_out.mining_shape.level =
                 IF IntOfSigned(Strip(RawOf(payload).level.s)).exc = "none"
                 THEN IntOfSigned(Strip(RawOf(payload).level.s)).val
                 ELSE 0

\* ------------------------------------------------------------ specifications
NextCodec ==
    \/ \E seg \in VertexSegments : AppendRing(seg) /\ UNCHANGED notCodec
    \/ \E seg \in VertexSegments : AppendVertex(seg) /\ UNCHANGED notCodec
    \/ ParseShape /\ UNCHANGED notCodec

InitCodec == CodecInit /\ AsmIdle /\ ExpIdle /\ CapIdle /\ RtIdle /\ TrIdle /\ NvIdle /\ FtIdle

SpecCodec == InitCodec /\ [][NextCodec]_vars

NextAssemble == Assemble /\ UNCHANGED notAsm

InitAssemble == AsmInit /\ CodecIdle /\ ExpIdle /\ CapIdle /\ RtIdle /\ TrIdle /\ NvIdle /\ FtIdle

SpecAssemble == InitAssemble /\ [][NextAssemble]_vars

NextExport ==
    \/ \E place \in ExportPlaces : AddPlace(place) /\ UNCHANGED notExp
    \/ ExportGeoJSON /\ UNCHANGED notExp
    \/ ExportShapefile /\ UNCHANGED notExp
    \/ ExportBatchGeoJSON /\ UNCHANGED notExp
    \/ ExportBatchShapefile /\ UNCHANGED notExp

InitExport == ExpInit /\ CodecIdle /\ AsmIdle /\ CapIdle /\ RtIdle /\ TrIdle /\ NvIdle /\ FtIdle

SpecExport == InitExport /\ [][NextExport]_vars

NextCapture ==
    \/ StartCapture /\ UNCHANGED notCap
    \/ StopCapture /\ UNCHANGED notCap
    \/ DialogRejected /\ UNCHANGED notCap
    \/ \E options \in ExportOptions : DialogAccepted(options) /\ UNCHANGED notCap
    \/ CloseBox /\ UNCHANGED notCap
    \/ \E poiid \in CapPoiIds : OnPoiFromWeb(poiid) /\ UNCHANGED notCap
    \/ \E k \in ReqKeys : RetryTimerFires(k[1], k[2]) /\ UNCHANGED notCap
    \/ \E k \in ReqKeys, place \in ClientPlaces :
          PlaceDelivered(k[1], k[2], place) /\ UNCHANGED notCap
    \/ \E k \in ReqKeys : NoPlaceDelivered(k[1], k[2]) /\ UNCHANGED notCap

InitCapture == CapInit /\ CodecIdle /\ AsmIdle /\ ExpIdle /\ RtIdle /\ TrIdle /\ NvIdle /\ FtIdle

SpecCapture == InitCapture /\ [][NextCapture]_vars

NextPolling ==
    \/ StartCapture /\ UNCHANGED notCap
    \/ CloseBox /\ UNCHANGED notCap
    \/ \E poiid \in PollPoiIds : OnPoiFromWeb(poiid) /\ UNCHANGED notCap
    \/ \E poiid \in PollPoiIds : FetchWhenIdle(poiid) /\ UNCHANGED notCap
    \/ \E k \in PollKeys : RetryTimerFires(k[1], k[2]) /\ UNCHANGED notCap
    \/ \E k \in PollKeys : CallbackDelivered(k[1], k[2]) /\ UNCHANGED notCap

InitPolling == CapInit /\ CodecIdle /\ AsmIdle /\ ExpIdle /\ RtIdle /\ TrIdle /\ NvIdle /\ FtIdle

\* The event loop fires every timer that is due and delivers every
\* callback of runJavaScript.
SpecPolling ==
    /\ InitPolling
    /\ [][NextPolling]_vars
    /\ \A k \in PollKeys :
          /\ WF_vars(RetryTimerFires(k[1], k[2]) /\ UNCHANGED notCap)
          /\ WF_vars(CallbackDelivered(k[1], k[2]) /\ UNCHANGED notCap)

NextRoundTrip ==
    \/ \E point \in RtPoints : NewRing(point) /\ UNCHANGED notRt
    \/ \E point \in RtPoints : AddPoint(point) /\ UNCHANGED notRt
    \/ Serialize /\ UNCHANGED notRt
    \/ ParseBack /\ UNCHANGED notRt

InitRoundTrip == RtInit /\ CodecIdle /\ AsmIdle /\ ExpIdle /\ CapIdle /\ TrIdle /\ NvIdle /\ FtIdle

SpecRoundTrip == InitRoundTrip /\ [][NextRoundTrip]_vars

NextTransform ==
    \/ \E point \in TrPoints : AddVertex(point) /\ UNCHANGED notTr
    \/ Convert /\ UNCHANGED notTr

InitTransform == TrInit /\ CodecIdle /\ AsmIdle /\ ExpIdle /\ CapIdle /\ RtIdle /\ NvIdle /\ FtIdle

SpecTransform == InitTransform /\ [][NextTransform]_vars

NextNormalize ==
    \/ \E point \in NvPoints : AddViewPoint(point) /\ UNCHANGED notNv
    \/ Normalize /\ UNCHANGED notNv

InitNormalize == NvInit /\ CodecIdle /\ AsmIdle /\ ExpIdle /\ CapIdle /\ RtIdle /\ TrIdle /\ FtIdle

SpecNormalize == InitNormalize /\ [][NextNormalize]_vars

NextFeature ==
    \/ \E ring \in FtRings : FtAddRing(ring) /\ UNCHANGED notFt
    \/ FtAddPolygon /\ UNCHANGED notFt
    \/ FeatureToShapeString /\ UNCHANGED notFt

InitFeature == FtInit /\ CodecIdle /\ AsmIdle /\ ExpIdle /\ CapIdle /\ RtIdle /\ TrIdle /\ NvIdle

SpecFeature == InitFeature /\ [][NextFeature]_vars

====
